---- MODULE Spec2Model ----
(***************************************************************************)
(* Storage management of the NAS server (src/server.ts): the folders and   *)
(* files tables of the SQLite metadata store, the uploads directory that   *)
(* holds the blobs, and the HTTP handlers that mutate them.                *)
(*                                                                         *)
(* Scheduling: node runs one handler at a time and every handler body is   *)
(* synchronous (better-sqlite3 and fs.*Sync), so a handler is one atomic   *)
(* action.  The only operation with an asynchronous gap is POST            *)
(* /api/upload: the multer middleware streams the blob to disk first and   *)
(* the handler runs later, so an upload is two actions with the request    *)
(* sitting in `inflight` in between.                                       *)
(*                                                                         *)
(* The web client (src/unnamed/part_000) is the second part: its folder    *)
(* navigation and its fetchContents requests, whose responses arrive in    *)
(* any order.  SpecClient runs it against the server's handlers.           *)
(***************************************************************************)
EXTENDS Integers, Sequences, FiniteSets, Bags, TLC

\* ------------------------------------------------------------------ bounds
MaxSteps == 3         \* events of one run: requests accepted and clock ticks

\* ------------------------------------------------------------------ values
NULL == "NULL"                      \* SQL NULL / JS null
ROOT == "root"                      \* the wire sentinel for the null parent
Ids == {"a", "b"}                   \* outcomes of Math.random().toString(36)...
Rnd == {0, 1}                       \* outcomes of Math.round(Math.random() * 1e9)
FolderNames == {"", "x"}            \* name of POST /api/folders (one is empty)
UploadNames == {"x"}                \* file.originalname of an upload
NewNames == {"", "y"}               \* newName of POST /api/rename (one is empty)
Types == {"file", "folder"}         \* type of POST /api/rename
WireIds == Ids \cup {ROOT}          \* folderId / parentId as sent by a caller
UploadFolderIds == {ROOT, "a"}      \* folderId of an upload: the root or a folder id (the ids are interchangeable)
MimeTypes == {"text/plain"}
Contents == {<<>>, <<7>>}           \* uploaded payloads (sizes 0 and 1)

VARIABLES
    folders,     \* the folders table: set of rows (id is the PRIMARY KEY)
    files,       \* the files table: sequence of rows in rowid order
    blobs,       \* UPLOADS_DIR: function from file name to content
    inflight,    \* bag of req: uploads between the multer middleware and the handler
    now,         \* the clock (Date.now(), CURRENT_TIMESTAMP)
    steps,       \* number of requests accepted and clock ticks so far
    last,        \* the last request handled and its response
    \* the state of the web client (App in src/unnamed/part_000)
    currentFolderId,   \* 'root' or the id of the folder shown
    folderPath,        \* the breadcrumb: sequence of folder rows
    uiFolders,         \* the folders state: the folder rows displayed
    uiFiles,           \* the files state: the file rows displayed
    uiFrom,            \* the folderId of the request whose response is displayed
    fetches,           \* bag of GET /api/contents requests of fetchContents in flight
    uploads,           \* bag of handleUpload calls awaiting the answer of POST /api/upload
    clicks             \* number of user actions so far

cvars == <<currentFolderId, folderPath, uiFolders, uiFiles, uiFrom, fetches, uploads, clicks>>

vars == <<folders, files, blobs, inflight, now, steps, last,
          currentFolderId, folderPath, uiFolders, uiFiles, uiFrom, fetches, uploads, clicks>>

\* ------------------------------------------------------------------ helpers
Range(s) == {s[i] : i \in 1..Len(s)}

FileRows == Range(files)

FolderIds == {f.id : f \in folders}

FileIds == {f.id : f \in FileRows}

\* fs.existsSync(path.join(UPLOADS_DIR, name))
existsSync(name) == name \in DOMAIN blobs

\* the directory after fs.unlinkSync of every name in `names`
Unlink(dir, names) == [k \in (DOMAIN dir) \ names |-> dir[k]]

\* the directory after a write stream to `name` finished with `content`
WriteBlob(dir, name, content) ==
    [k \in (DOMAIN dir) \cup {name} |-> IF k = name THEN content ELSE dir[k]]

\* the wire value stored as it came
FromWire_AsSent(x) == x

\* x === "root" ? null : x
FromWire(x) == IF x = ROOT THEN NULL ELSE x

\* a response as `last` records it; again: the request repeats the previous
\* one (same operation, same id), which was answered 200; blob: when the
\* request arrived, id named a file row whose blob existed
Response(op, id, status, err) ==
    [op |-> op, id |-> id, status |-> status, err |-> err,
     again |-> (last.op = op /\ last.id = id /\ last.status = 200),
     blob |-> (\E f \in FileRows : f.id = id /\ existsSync(f.name))]

Init ==
    /\ folders = {}
    /\ files = <<>>
    /\ blobs = [k \in {} |-> <<>>]
    /\ inflight = EmptyBag
    /\ now = 0
    /\ steps = 0
    /\ last = [op |-> "none", id |-> NULL, status |-> 0, err |-> "none", again |-> FALSE,
               blob |-> FALSE]
    \* the client is mounted: root is shown, nothing is listed yet and the
    \* fetchContents('root') of the first effect is in flight
    /\ currentFolderId = ROOT
    /\ folderPath = <<>>
    /\ uiFolders = <<>>
    /\ uiFiles = <<>>
    /\ uiFrom = NULL
    /\ fetches = SetToBag({[folderId |-> ROOT, body |-> <<>>]})
    /\ uploads = EmptyBag
    /\ clicks = 0

\* ------------------------------------------------------------------ events
\* one more event of the run: the server accepts a request, or the clock ticks
Accept ==
    /\ steps < MaxSteps
    /\ steps' = steps + 1
    /\ UNCHANGED cvars

\* the clock advances between two events
Tick ==
    /\ Accept
    /\ now' = now + 1
    /\ UNCHANGED <<folders, files, blobs, inflight, last>>

\* ------------------------------------------------------------------ POST /api/folders
\* CreateFolder without the `!name` test
CreateFolder_NoNameCheck(name, parentId, id, dbFail) ==
    LET pId == FromWire(parentId)
        row == [id |-> id, name |-> name, parent_id |-> pId, created_at |-> now]
    IN  IF dbFail \/ id \in FolderIds
        THEN /\ last' = Response("CreateFolder", NULL, 500, "db")
             /\ UNCHANGED <<folders, files, blobs, inflight, now>>
        ELSE /\ folders' = folders \cup {row}
             /\ last' = Response("CreateFolder", id, 200, "none")
             /\ UNCHANGED <<files, blobs, inflight, now>>

CreateFolder(name, parentId, id, dbFail) ==
    IF name = ""
    THEN /\ last' = Response("CreateFolder", NULL, 400, "none")
         /\ UNCHANGED <<folders, files, blobs, inflight, now>>
    ELSE LET pId == FromWire(parentId)
             row == [id |-> id, name |-> name, parent_id |-> pId, created_at |-> now]
         IN  IF dbFail \/ id \in FolderIds   \* the INSERT throws (PRIMARY KEY, I/O)
             THEN /\ last' = Response("CreateFolder", NULL, 500, "db")
                  /\ UNCHANGED <<folders, files, blobs, inflight, now>>
             ELSE /\ folders' = folders \cup {row}
                  /\ last' = Response("CreateFolder", id, 200, "none")
                  /\ UNCHANGED <<files, blobs, inflight, now>>

\* ------------------------------------------------------------------ POST /api/upload
\* multer.diskStorage filename: Date.now() + "-" + random + "-" + originalname
Filename(ts, rnd, originalname) == <<ts, rnd, originalname>>

\* upload.single("file") with a file part: the middleware streams the blob to
\* UPLOADS_DIR under the generated name (an existing file of that name is
\* overwritten) and fills req.file; the handler has not run yet.  The step is
\* the completed write: a stream that breaks never reaches the handler.
UploadBlobWrite(originalname, mimetype, content, folderId, rnd) ==
    LET filename == Filename(now, rnd, originalname)
        req == [filename |-> filename, originalname |-> originalname,
                mimetype |-> mimetype, size |-> Len(content), folderId |-> folderId,
                sent |-> content]   \* sent: the payload, kept for the properties
    IN  /\ blobs' = WriteBlob(blobs, filename, content)
        /\ inflight' = inflight (+) SetToBag({req})
        /\ UNCHANGED <<folders, files, now, last>>

\* the handler of a request whose req.file is set
UploadHandler(req, fileId, dbFail) ==
    /\ BagIn(req, inflight)
    /\ LET row == [id |-> fileId, name |-> req.filename,
                   original_name |-> req.originalname, mime_type |-> req.mimetype,
                   size |-> req.size, folder_id |-> FromWire(req.folderId),
                   upload_date |-> now]
       IN  IF dbFail \/ fileId \in FileIds   \* the INSERT throws (PRIMARY KEY, I/O)
           THEN /\ last' = Response("UploadFile", NULL, 500, "db")
                /\ UNCHANGED files
           ELSE /\ files' = Append(files, row)
                /\ last' = Response("UploadFile", fileId, 200, "none")
    /\ inflight' = inflight (-) SetToBag({req})
    /\ UNCHANGED <<folders, blobs, now, steps>>

\* a request without a file part: req.file is undefined
UploadNoFile ==
    /\ last' = Response("UploadFile", NULL, 400, "none")
    /\ UNCHANGED <<folders, files, blobs, inflight, now>>

\* ------------------------------------------------------------------ DELETE /api/folders/:id
\* SELECT name FROM files WHERE folder_id = ?   (rowid order)
FilesInFolder(id) == SelectSeq(files, LAMBDA f : f.folder_id = id)

\* the names the forEach has passed when it reaches index j
Passed(rows, j) == {rows[i].name : i \in 1..(j - 1)}

\* DeleteFolder that also deletes the child folders of id
DeleteFolder_WithChildren(id, fail, j) ==
    LET filesInFolder == FilesInFolder(id)
        n == Len(filesInFolder)
        kept == SelectSeq(files, LAMBDA f : f.folder_id # id)
    IN  CASE fail = "unlink" ->
               /\ j \in 1..n
               /\ existsSync(filesInFolder[j].name)
               /\ filesInFolder[j].name \notin Passed(filesInFolder, j)
               /\ blobs' = Unlink(blobs, Passed(filesInFolder, j))
               /\ last' = Response("DeleteFolder", id, 500, "unlink")
               /\ UNCHANGED <<folders, files, inflight, now>>
          [] fail = "delfiles" ->
               /\ j = 0
               /\ blobs' = Unlink(blobs, Passed(filesInFolder, n + 1))
               /\ last' = Response("DeleteFolder", id, 500, "db")
               /\ UNCHANGED <<folders, files, inflight, now>>
          [] fail = "delfolder" ->
               /\ j = 0
               /\ blobs' = Unlink(blobs, Passed(filesInFolder, n + 1))
               /\ files' = kept
               /\ last' = Response("DeleteFolder", id, 500, "db")
               /\ UNCHANGED <<folders, inflight, now>>
          [] OTHER ->
               /\ fail = "none"
               /\ j = 0
               /\ blobs' = Unlink(blobs, Passed(filesInFolder, n + 1))
               /\ files' = kept
               /\ folders' = {f \in folders : f.id # id /\ f.parent_id # id}
               /\ last' = Response("DeleteFolder", id, 200, "none")
               /\ UNCHANGED <<inflight, now>>

\* fail: the statement that throws ("none": no statement does); j: for
\* fail = "unlink", the index in filesInFolder whose fs.unlinkSync throws
DeleteFolder(id, fail, j) ==
    LET filesInFolder == FilesInFolder(id)
        n == Len(filesInFolder)
        kept == SelectSeq(files, LAMBDA f : f.folder_id # id)
    IN  CASE fail = "unlink" ->
               /\ j \in 1..n
               /\ existsSync(filesInFolder[j].name)
               /\ filesInFolder[j].name \notin Passed(filesInFolder, j)
               /\ blobs' = Unlink(blobs, Passed(filesInFolder, j))
               /\ last' = Response("DeleteFolder", id, 500, "unlink")
               /\ UNCHANGED <<folders, files, inflight, now>>
          [] fail = "delfiles" ->
               /\ j = 0
               /\ blobs' = Unlink(blobs, Passed(filesInFolder, n + 1))
               /\ last' = Response("DeleteFolder", id, 500, "db")
               /\ UNCHANGED <<folders, files, inflight, now>>
          [] fail = "delfolder" ->
               /\ j = 0
               /\ blobs' = Unlink(blobs, Passed(filesInFolder, n + 1))
               /\ files' = kept
               /\ last' = Response("DeleteFolder", id, 500, "db")
               /\ UNCHANGED <<folders, inflight, now>>
          [] OTHER ->
               /\ fail = "none"
               /\ j = 0
               /\ blobs' = Unlink(blobs, Passed(filesInFolder, n + 1))
               /\ files' = kept
               /\ folders' = {f \in folders : f.id # id}
               /\ last' = Response("DeleteFolder", id, 200, "none")
               /\ UNCHANGED <<inflight, now>>

\* ------------------------------------------------------------------ DELETE /api/files/:id
\* DeleteFile with the DELETE statement moved in front of the unlink: the row
\* is already gone when fs.unlinkSync throws
DeleteFile_RowFirst(id, fail) ==
    IF id \notin FileIds
    THEN /\ fail = "none"
         /\ last' = Response("DeleteFile", id, 404, "none")
         /\ UNCHANGED <<folders, files, blobs, inflight, now>>
    ELSE LET file == CHOOSE f \in FileRows : f.id = id
         IN  CASE fail = "unlink" ->
                    /\ existsSync(file.name)
                    /\ files' = SelectSeq(files, LAMBDA f : f.id # id)
                    /\ last' = Response("DeleteFile", id, 500, "unlink")
                    /\ UNCHANGED <<folders, blobs, inflight, now>>
               [] fail = "db" ->
                    /\ last' = Response("DeleteFile", id, 500, "db")
                    /\ UNCHANGED <<folders, files, blobs, inflight, now>>
               [] OTHER ->
                    /\ fail = "none"
                    /\ blobs' = Unlink(blobs, {file.name})
                    /\ files' = SelectSeq(files, LAMBDA f : f.id # id)
                    /\ last' = Response("DeleteFile", id, 200, "none")
                    /\ UNCHANGED <<folders, inflight, now>>

\* DeleteFile without the 404 branch: an id with no row is answered 200
DeleteFile_NoLookup(id, fail) ==
    IF id \notin FileIds
    THEN /\ fail = "none"
         /\ last' = Response("DeleteFile", id, 200, "none")
         /\ UNCHANGED <<folders, files, blobs, inflight, now>>
    ELSE LET file == CHOOSE f \in FileRows : f.id = id
         IN  CASE fail = "unlink" ->
                    /\ existsSync(file.name)
                    /\ last' = Response("DeleteFile", id, 500, "unlink")
                    /\ UNCHANGED <<folders, files, blobs, inflight, now>>
               [] fail = "db" ->
                    /\ blobs' = Unlink(blobs, {file.name})
                    /\ last' = Response("DeleteFile", id, 500, "db")
                    /\ UNCHANGED <<folders, files, inflight, now>>
               [] OTHER ->
                    /\ fail = "none"
                    /\ blobs' = Unlink(blobs, {file.name})
                    /\ files' = SelectSeq(files, LAMBDA f : f.id # id)
                    /\ last' = Response("DeleteFile", id, 200, "none")
                    /\ UNCHANGED <<folders, inflight, now>>

\* DeleteFile that removes the row and answers 200 while the bytes remain
DeleteFile_KeepBlob(id, fail) ==
    IF id \notin FileIds
    THEN /\ fail = "none"
         /\ last' = Response("DeleteFile", id, 404, "none")
         /\ UNCHANGED <<folders, files, blobs, inflight, now>>
    ELSE LET file == CHOOSE f \in FileRows : f.id = id
         IN  CASE fail = "unlink" ->
                    /\ existsSync(file.name)
                    /\ last' = Response("DeleteFile", id, 500, "unlink")
                    /\ UNCHANGED <<folders, files, blobs, inflight, now>>
               [] fail = "db" ->
                    /\ blobs' = Unlink(blobs, {file.name})
                    /\ last' = Response("DeleteFile", id, 500, "db")
                    /\ UNCHANGED <<folders, files, inflight, now>>
               [] OTHER ->
                    /\ fail = "none"
                    /\ files' = SelectSeq(files, LAMBDA f : f.id # id)
                    /\ last' = Response("DeleteFile", id, 200, "none")
                    /\ UNCHANGED <<folders, blobs, inflight, now>>

\* DeleteFile that unlinks without fs.existsSync: an absent blob throws ENOENT
DeleteFile_NoExistsCheck(id, fail) ==
    IF id \notin FileIds
    THEN /\ fail = "none"
         /\ last' = Response("DeleteFile", id, 404, "none")
         /\ UNCHANGED <<folders, files, blobs, inflight, now>>
    ELSE LET file == CHOOSE f \in FileRows : f.id = id
         IN  CASE fail = "unlink" \/ ~existsSync(file.name) ->
                    /\ fail \in {"unlink", "none"}
                    /\ last' = Response("DeleteFile", id, 500, "unlink")
                    /\ UNCHANGED <<folders, files, blobs, inflight, now>>
               [] fail = "db" ->
                    /\ blobs' = Unlink(blobs, {file.name})
                    /\ last' = Response("DeleteFile", id, 500, "db")
                    /\ UNCHANGED <<folders, files, inflight, now>>
               [] OTHER ->
                    /\ fail = "none"
                    /\ blobs' = Unlink(blobs, {file.name})
                    /\ files' = SelectSeq(files, LAMBDA f : f.id # id)
                    /\ last' = Response("DeleteFile", id, 200, "none")
                    /\ UNCHANGED <<folders, inflight, now>>

\* fail: "unlink" (fs.unlinkSync throws), "db" (the DELETE throws) or "none"
DeleteFile(id, fail) ==
    IF id \notin FileIds
    THEN /\ fail = "none"
         /\ last' = Response("DeleteFile", id, 404, "none")
         /\ UNCHANGED <<folders, files, blobs, inflight, now>>
    ELSE LET file == CHOOSE f \in FileRows : f.id = id
         IN  CASE fail = "unlink" ->
                    /\ existsSync(file.name)
                    /\ last' = Response("DeleteFile", id, 500, "unlink")
                    /\ UNCHANGED <<folders, files, blobs, inflight, now>>
               [] fail = "db" ->
                    /\ blobs' = Unlink(blobs, {file.name})
                    /\ last' = Response("DeleteFile", id, 500, "db")
                    /\ UNCHANGED <<folders, files, inflight, now>>
               [] OTHER ->
                    /\ fail = "none"
                    /\ blobs' = Unlink(blobs, {file.name})
                    /\ files' = SelectSeq(files, LAMBDA f : f.id # id)
                    /\ last' = Response("DeleteFile", id, 200, "none")
                    /\ UNCHANGED <<folders, inflight, now>>

\* ------------------------------------------------------------------ POST /api/rename
\* Rename whose validation tests id and type only
Rename_NoNameCheck(id, type, newName, dbFail) ==
    IF id = "" \/ type = ""
    THEN /\ ~dbFail
         /\ last' = Response("Rename", id, 400, "none")
         /\ UNCHANGED <<folders, files, blobs, inflight, now>>
    ELSE IF dbFail
    THEN /\ last' = Response("Rename", id, 500, "db")
         /\ UNCHANGED <<folders, files, blobs, inflight, now>>
    ELSE /\ IF type = "file"
            THEN /\ files' = [i \in 1..Len(files) |->
                        IF files[i].id = id
                        THEN [files[i] EXCEPT !.original_name = newName]
                        ELSE files[i]]
                 /\ UNCHANGED folders
            ELSE /\ folders' = {IF f.id = id THEN [f EXCEPT !.name = newName] ELSE f :
                                 f \in folders}
                 /\ UNCHANGED files
         /\ last' = Response("Rename", id, 200, "none")
         /\ UNCHANGED <<blobs, inflight, now>>

\* Rename whose UPDATE of files also rewrites the storage key
Rename_RewritesKey(id, type, newName, dbFail) ==
    IF id = "" \/ type = "" \/ newName = ""
    THEN /\ ~dbFail
         /\ last' = Response("Rename", id, 400, "none")
         /\ UNCHANGED <<folders, files, blobs, inflight, now>>
    ELSE IF dbFail
    THEN /\ last' = Response("Rename", id, 500, "db")
         /\ UNCHANGED <<folders, files, blobs, inflight, now>>
    ELSE /\ IF type = "file"
            THEN /\ files' = [i \in 1..Len(files) |->
                        IF files[i].id = id
                        THEN [files[i] EXCEPT !.original_name = newName,
                                              !.name = <<files[i].name[1], files[i].name[2], newName>>]
                        ELSE files[i]]
                 /\ UNCHANGED folders
            ELSE /\ folders' = {IF f.id = id THEN [f EXCEPT !.name = newName] ELSE f :
                                 f \in folders}
                 /\ UNCHANGED files
         /\ last' = Response("Rename", id, 200, "none")
         /\ UNCHANGED <<blobs, inflight, now>>

Rename(id, type, newName, dbFail) ==
    IF id = "" \/ type = "" \/ newName = ""
    THEN /\ ~dbFail
         /\ last' = Response("Rename", id, 400, "none")
         /\ UNCHANGED <<folders, files, blobs, inflight, now>>
    ELSE IF dbFail
    THEN /\ last' = Response("Rename", id, 500, "db")
         /\ UNCHANGED <<folders, files, blobs, inflight, now>>
    ELSE /\ IF type = "file"
            THEN /\ files' = [i \in 1..Len(files) |->
                        IF files[i].id = id
                        THEN [files[i] EXCEPT !.original_name = newName]
                        ELSE files[i]]
                 /\ UNCHANGED folders
            ELSE /\ folders' = {IF f.id = id THEN [f EXCEPT !.name = newName] ELSE f :
                                 f \in folders}
                 /\ UNCHANGED files
         /\ last' = Response("Rename", id, 200, "none")
         /\ UNCHANGED <<blobs, inflight, now>>

\* ------------------------------------------------------------------ GET /api/contents
\* the SELECT with null as a wildcard: at the root every folder matches
ContentsFolders_Wildcard(folderId) ==
    IF FromWire(folderId) = NULL THEN folders
    ELSE {f \in folders : f.parent_id = FromWire(folderId)}

\* the rows the two SELECTs of ListContents(folderId) match
ContentsFolders(folderId) == {f \in folders : f.parent_id = FromWire(folderId)}

ContentsFiles(folderId) == {f \in FileRows : f.folder_id = FromWire(folderId)}

\* the collation of the names: "" < "x" < "y"
NameRank(n) == CASE n = "" -> 0 [] n = "x" -> 1 [] OTHER -> 2

\* every sequence that lists the rows of S once each
RECURSIVE Orderings(_)
Orderings(S) ==
    IF S = {} THEN {<<>>}
    ELSE UNION {{<<r>> \o t : t \in Orderings(S \ {r})} : r \in S}

\* ORDER BY name ASC / ORDER BY upload_date DESC: SQLite may return rows with
\* equal keys in any order
ByNameAsc(S) ==
    {s \in Orderings(S) :
        \A i, j \in 1..Len(s) : i < j => NameRank(s[i].name) <= NameRank(s[j].name)}

ByUploadDateDesc(S) ==
    {s \in Orderings(S) :
        \A i, j \in 1..Len(s) : i < j => s[i].upload_date >= s[j].upload_date}

\* the bodies res.json({ folders, files }) can carry
ListContentsBodies(folderId) ==
    {[folders |-> fo, files |-> fi] :
        fo \in ByNameAsc(ContentsFolders(folderId)),
        fi \in ByUploadDateDesc(ContentsFiles(folderId))}

\* dbFail: one of the two SELECTs throws and the catch answers 500
ListContents(folderId, dbFail) ==
    /\ last' = IF dbFail THEN Response("ListContents", folderId, 500, "db")
                         ELSE Response("ListContents", folderId, 200, "none")
    /\ UNCHANGED <<folders, files, blobs, inflight, now>>

\* ------------------------------------------------------------------ GET /api/files
\* the bodies res.json(files) can carry: every file row, upload_date descending
ListFilesBodies == ByUploadDateDesc(FileRows)

\* dbFail: the SELECT throws and the catch answers 500
ListFiles(dbFail) ==
    /\ last' = IF dbFail THEN Response("ListFiles", NULL, 500, "db")
                         ELSE Response("ListFiles", NULL, 200, "none")
    /\ UNCHANGED <<folders, files, blobs, inflight, now>>

\* ------------------------------------------------------------------ GET /api/stats
\* MAX(size) in place of SUM(size)
SqlSum_Max(rows) ==
    IF rows = <<>> THEN <<>>
    ELSE LET sizes == {rows[i].size : i \in 1..Len(rows)}
         IN  <<CHOOSE m \in sizes : \A n \in sizes : n <= m>>

\* SUM(size): NULL (here <<>>) over no rows, else <<the sum>>
RECURSIVE SqlSum(_)
SqlSum(rows) ==
    IF rows = <<>> THEN <<>>
    ELSE LET rest == SqlSum(Tail(rows))
         IN  <<Head(rows).size + (IF rest = <<>> THEN 0 ELSE rest[1])>>

\* x || 0 for a number or null x
OrZero(x) == IF x = <<>> THEN 0 ELSE x[1]

\* the body of the response
StatsBody == [count |-> OrZero(<<Len(files)>>), totalSize |-> OrZero(SqlSum(files))]

\* dbFail: the SELECT throws and the catch answers 500
ComputeStats(dbFail) ==
    /\ last' = IF dbFail THEN Response("ComputeStats", NULL, 500, "db")
                         ELSE Response("ComputeStats", NULL, 200, "none")
    /\ UNCHANGED <<folders, files, blobs, inflight, now>>

\* ------------------------------------------------------------------ GET /api/files/:id/download, /view
\* a download / view that drops the row when it finds the blob missing
SendFile_DropsRow(op, id, dbFail) ==
    IF dbFail
    THEN /\ last' = Response(op, id, 500, "db")
         /\ UNCHANGED <<folders, files, blobs, inflight, now>>
    ELSE IF id \notin FileIds
    THEN /\ last' = Response(op, id, 404, "none")
         /\ UNCHANGED <<folders, files, blobs, inflight, now>>
    ELSE LET file == CHOOSE f \in FileRows : f.id = id
         IN  IF existsSync(file.name)
             THEN /\ last' = Response(op, id, 200, "none")
                  /\ UNCHANGED <<folders, files, blobs, inflight, now>>
             ELSE /\ last' = Response(op, id, 404, "ENOENT")
                  /\ files' = SelectSeq(files, LAMBDA f : f.id # id)
                  /\ UNCHANGED <<folders, blobs, inflight, now>>

\* res.download / res.sendFile of the blob: the handler passes the path and, for
\* download, file.original_name; it has no branch for a missing blob, so the
\* ENOENT of the stream goes to express, which answers it as 404
\* dbFail: the SELECT throws; the handler has no try, express answers 500
SendFile(op, id, dbFail) ==
    IF dbFail
    THEN /\ last' = Response(op, id, 500, "db")
         /\ UNCHANGED <<folders, files, blobs, inflight, now>>
    ELSE IF id \notin FileIds
    THEN /\ last' = Response(op, id, 404, "none")
         /\ UNCHANGED <<folders, files, blobs, inflight, now>>
    ELSE LET file == CHOOSE f \in FileRows : f.id = id
         IN  /\ last' = IF existsSync(file.name)
                        THEN Response(op, id, 200, "none")
                        ELSE Response(op, id, 404, "ENOENT")
             /\ UNCHANGED <<folders, files, blobs, inflight, now>>

DownloadFile(id, dbFail) == SendFile("DownloadFile", id, dbFail)

ViewFile(id, dbFail) == SendFile("ViewFile", id, dbFail)

\* what a successful download of the row `file` carries: the bytes of the blob
\* and the suggested filename
DownloadBody(file) == [content |-> blobs[file.name], filename |-> file.original_name]

\* ------------------------------------------------------------------ the server
Fails == {"none", "unlink", "delfiles", "delfolder"}

Next ==
    \/ Tick
    \/ \E name \in FolderNames, parentId \in WireIds, id \in Ids, dbFail \in BOOLEAN :
          Accept /\ CreateFolder(name, parentId, id, dbFail)
    \/ \E originalname \in UploadNames, mimetype \in MimeTypes, content \in Contents,
          folderId \in UploadFolderIds, rnd \in Rnd :
          Accept /\ UploadBlobWrite(originalname, mimetype, content, folderId, rnd)
    \/ \E req \in BagToSet(inflight), fileId \in Ids, dbFail \in BOOLEAN :
          UploadHandler(req, fileId, dbFail) /\ UNCHANGED cvars
    \/ Accept /\ UploadNoFile
    \/ \E id \in Ids, fail \in Fails, j \in 0..Len(files) :
          Accept /\ DeleteFolder(id, fail, j)
    \/ \E id \in Ids, fail \in {"none", "unlink", "db"} : Accept /\ DeleteFile(id, fail)
    \/ \E id \in Ids, type \in Types, newName \in NewNames, dbFail \in BOOLEAN :
          Accept /\ Rename(id, type, newName, dbFail)
    \/ \E folderId \in WireIds, dbFail \in BOOLEAN : Accept /\ ListContents(folderId, dbFail)
    \/ \E dbFail \in BOOLEAN : Accept /\ ListFiles(dbFail)
    \/ \E dbFail \in BOOLEAN : Accept /\ ComputeStats(dbFail)
    \/ \E id \in Ids, dbFail \in BOOLEAN : Accept /\ DownloadFile(id, dbFail)
    \/ \E id \in Ids, dbFail \in BOOLEAN : Accept /\ ViewFile(id, dbFail)

Spec == Init /\ [][Next]_vars

\* The runs in which no store operation fails: no fs call and no SQL statement
\* throws (a PRIMARY KEY collision of a generated id is a failing INSERT).
NoFault == last.err = "none"

NextNoFault ==
    \/ Tick
    \/ \E name \in FolderNames, parentId \in WireIds, id \in Ids :
          Accept /\ CreateFolder(name, parentId, id, FALSE) /\ NoFault'
    \/ \E originalname \in UploadNames, mimetype \in MimeTypes, content \in Contents,
          folderId \in UploadFolderIds, rnd \in Rnd :
          Accept /\ UploadBlobWrite(originalname, mimetype, content, folderId, rnd)
    \/ \E req \in BagToSet(inflight), fileId \in Ids :
          UploadHandler(req, fileId, FALSE) /\ NoFault' /\ UNCHANGED cvars
    \/ Accept /\ UploadNoFile
    \/ \E id \in Ids : Accept /\ DeleteFolder(id, "none", 0)
    \/ \E id \in Ids : Accept /\ DeleteFile(id, "none")
    \/ \E id \in Ids, type \in Types, newName \in NewNames :
          Accept /\ Rename(id, type, newName, FALSE)
    \/ \E folderId \in WireIds : Accept /\ ListContents(folderId, FALSE)
    \/ Accept /\ ListFiles(FALSE)
    \/ Accept /\ ComputeStats(FALSE)
    \/ \E id \in Ids : Accept /\ DownloadFile(id, FALSE) /\ NoFault'
    \/ \E id \in Ids : Accept /\ ViewFile(id, FALSE) /\ NoFault'

SpecNoFault == Init /\ [][NextNoFault]_vars

\* ------------------------------------------------------------------ the client (src/unnamed/part_000)
MaxClicks == 2        \* user actions of one run

\* ids of the folders created while the client runs: an outcome of
\* Math.random().toString(36).substring(7) is any short base-36 string, the
\* string "root" included
ClientIds == {"a", ROOT}

\* the argument 'root' of navigateToFolder (the other arguments are folder rows)
RootArg == [root |-> TRUE]

\* what the user can click: Root, a breadcrumb entry, a listed folder
Targets == {RootArg} \cup Range(folderPath) \cup Range(uiFolders)

Click ==
    /\ clicks < MaxClicks
    /\ clicks' = clicks + 1

\* fetchContents(folderId) up to its first await: the GET is in flight
fetchContents(bag, folderId) == bag (+) SetToBag({[folderId |-> folderId, body |-> <<>>]})

\* navigateToFolder(folder), and the effect that runs when currentFolderId
\* has changed and calls fetchContents(currentFolderId)
navigateToFolder(folder) ==
    /\ IF folder = RootArg
       THEN /\ currentFolderId' = ROOT
            /\ folderPath' = <<>>
       ELSE LET found == {i \in 1..Len(folderPath) : folderPath[i].id = folder.id}
                index == CHOOSE i \in found : \A k \in found : i <= k
            IN  /\ currentFolderId' = folder.id
                /\ folderPath' = IF found # {}
                                 THEN SubSeq(folderPath, 1, index)
                                 ELSE Append(folderPath, folder)
    /\ fetches' = IF currentFolderId' # currentFolderId
                  THEN fetchContents(fetches, currentFolderId')
                  ELSE fetches
    /\ UNCHANGED <<uiFolders, uiFiles, uiFrom, uploads>>

\* the server handles the GET /api/contents of the fetch f and answers body
AnswerContents(f, body) ==
    /\ BagIn(f, fetches) /\ f.body = <<>>
    /\ ListContents(f.folderId, FALSE)
    /\ body \in ListContentsBodies(f.folderId)
    /\ fetches' = (fetches (-) SetToBag({f})) (+) SetToBag({[f EXCEPT !.body = <<body>>]})
    /\ UNCHANGED <<steps, currentFolderId, folderPath, uiFolders, uiFiles, uiFrom, uploads, clicks>>

\* fetchContents after its awaits: setFiles(data.files); setFolders(data.folders)
Deliver(f) ==
    /\ BagIn(f, fetches) /\ f.body # <<>>
    /\ uiFiles' = f.body[1].files
    /\ uiFolders' = f.body[1].folders
    /\ uiFrom' = f.folderId
    /\ fetches' = fetches (-) SetToBag({f})
    /\ UNCHANGED <<folders, files, blobs, inflight, now, steps, last>>
    /\ UNCHANGED <<currentFolderId, folderPath, uploads, clicks>>

\* handleUpload(file) up to its await: the POST carries currentFolderId and
\* the multer middleware of the server stores the blob
handleUpload(originalname, mimetype, content, rnd) ==
    /\ UploadBlobWrite(originalname, mimetype, content, currentFolderId, rnd)
    /\ uploads' = uploads (+) SetToBag({currentFolderId})
    /\ UNCHANGED <<steps, currentFolderId, folderPath, uiFolders, uiFiles, uiFrom, fetches>>

\* the server handles the POST of a handleUpload call, and the call goes on:
\* if (response.ok) fetchContents(currentFolderId), with the currentFolderId
\* the call started with
UploadAnswered(req, fileId) ==
    /\ BagIn(req.folderId, uploads)
    /\ UploadHandler(req, fileId, FALSE)
    /\ uploads' = uploads (-) SetToBag({req.folderId})
    /\ fetches' = IF last'.status = 200
                  THEN fetchContents(fetches, req.folderId)
                  ELSE fetches
    /\ UNCHANGED <<currentFolderId, folderPath, uiFolders, uiFiles, uiFrom, clicks>>

NextClient ==
    \/ \E id \in ClientIds : Accept /\ CreateFolder("x", ROOT, id, FALSE)
    \/ \E folder \in Targets :
          /\ Click /\ navigateToFolder(folder)
          /\ UNCHANGED <<folders, files, blobs, inflight, now, steps, last>>
    \/ \E f \in BagToSet(fetches) : \E body \in ListContentsBodies(f.folderId) :
          AnswerContents(f, body)
    \/ \E f \in BagToSet(fetches) : Deliver(f)
    \/ \E originalname \in UploadNames, mimetype \in MimeTypes, content \in Contents,
          rnd \in Rnd :
          Click /\ handleUpload(originalname, mimetype, content, rnd)
    \/ \E req \in BagToSet(inflight), fileId \in Ids : UploadAnswered(req, fileId)

SpecClient == Init /\ [][NextClient]_vars

\* ------------------------------------------------------------------ properties
\* this step is the handler of `op` answering a request: an event that is
\* neither a clock tick nor the blob write of an upload
Handled(op) == steps' # steps /\ now' = now /\ inflight' = inflight /\ last'.op = op

EveryFileHasBlob == \A f \in FileRows : existsSync(f.name)

EveryBlobReferenced == \A k \in DOMAIN blobs : \E f \in FileRows : f.name = k

\* ids of the folders whose parent_id is in S
ChildIds(S) == {f.id : f \in {g \in folders : g.parent_id \in S}}

RECURSIVE Closure(_, _)
Closure(S, n) == IF n = 0 THEN S ELSE Closure(S \cup ChildIds(S), n - 1)

\* id and the ids of its transitive descendant folders
Subtree(id) == Closure({id}, Cardinality(folders))

\* C1: when no store operation fails, every FileRecord's name is the key of an
\* existing blob (checked under SpecNoFault).
C1_RecordsHaveBlobs == EveryFileHasBlob

\* C2: whenever no upload is in flight, every blob is referenced by some
\* FileRecord: a failed metadata insert leaves no orphaned blob.
C2_NoOrphanBlob == (inflight = EmptyBag) => EveryBlobReferenced

\* no Folder is among its own descendants
Acyclic == \A f \in folders : f.id \notin Closure(ChildIds({f.id}), Cardinality(folders))

\* the stores are consistent: the folders form a forest, no parent reference
\* dangles and every FileRecord has its blob
Consistent ==
    /\ Acyclic
    /\ \A f \in folders : f.parent_id = NULL \/ f.parent_id \in FolderIds
    /\ \A f \in FileRows : f.folder_id = NULL \/ f.folder_id \in FolderIds
    /\ EveryFileHasBlob

\* this step is a DeleteFolder of an existing Folder, in consistent stores,
\* that answers success
DeleteFolderSucceeds ==
    /\ Handled("DeleteFolder") /\ last'.status = 200
    /\ last'.id \in FolderIds
    /\ Consistent

\* C3: after DeleteFolder(id) succeeds (here: on an existing folder of
\* consistent stores) no folder of the subtree of id exists, no FileRecord that
\* was located in the subtree exists, and none of their blobs.
C3_CascadeDelete ==
    [][DeleteFolderSucceeds =>
        LET sub == Subtree(last'.id)
            gone == {f \in FileRows : f.folder_id \in sub}
        IN  /\ \A f \in folders' : f.id \notin sub
            /\ \A f \in gone : f \notin Range(files')
            /\ \A f \in gone : f.name \notin DOMAIN blobs']_vars

\* C4: after DeleteFolder(id) succeeds (here: on an existing folder of
\* consistent stores), ListContents of id and of every folder that was in its
\* subtree returns neither folders nor files.
C4_SubtreeListsEmpty ==
    [][DeleteFolderSucceeds =>
        \A v \in Subtree(last'.id) :
            /\ {f \in folders' : f.parent_id = FromWire(v)} = {}
            /\ {f \in Range(files') : f.folder_id = FromWire(v)} = {}]_vars

\* C5: DeleteFolder(id) with no Folder of that id answers NotFound (404) and
\* changes neither store.
C5_DeleteFolderNotFound ==
    [][Handled("DeleteFolder") /\ last'.id \notin FolderIds =>
        /\ last'.status = 404
        /\ folders' = folders /\ files' = files /\ blobs' = blobs]_vars

\* C6: every Folder's parent_id and every FileRecord's folder_id is null or the
\* id of an existing Folder.
C6_NoDanglingParents ==
    /\ \A f \in folders : f.parent_id = NULL \/ f.parent_id \in FolderIds
    /\ \A f \in FileRows : f.folder_id = NULL \/ f.folder_id \in FolderIds

\* C7: the parent graph is acyclic: no Folder is among its own descendants.
C7_Acyclic == Acyclic

\* C8: no two distinct FileRecords have the same name (storage key).
C8_UniqueNames ==
    \A i, j \in 1..Len(files) : i # j => files[i].name # files[j].name

\* C9: when a blob deletion fails during DeleteFolder(id) (here: started with
\* every FileRecord having its blob), the operation answers with an error and
\* every FileRecord that still exists still has its blob.
C9_FolderDeleteStaysPaired ==
    [][Handled("DeleteFolder") /\ last'.err = "unlink" /\ EveryFileHasBlob =>
        last'.status = 500 /\ EveryFileHasBlob']_vars

\* C10: when the blob deletion of DeleteFile(id) fails for a real I/O reason
\* (the blob is present and cannot be removed), the operation answers with an
\* error and the row and its blob are preserved unchanged, so DeleteFile(id)
\* can be retried.
C10_DeleteFileFailureKeepsRow ==
    [][Handled("DeleteFile") /\ last'.err = "unlink" =>
        /\ last'.status = 500
        /\ files' = files /\ blobs' = blobs
        /\ \E f \in Range(files') : f.id = last'.id /\ f.name \in DOMAIN blobs']_vars

\* a state right after a DeleteFile whose unlink failed: the row and the blob
\* are both still there
C10_Witness ==
    /\ last.op = "DeleteFile" /\ last.err = "unlink" /\ last.status = 500
    /\ \E f \in FileRows : f.id = last.id /\ existsSync(f.name)

RECURSIVE SizeOfRows(_)
SizeOfRows(I) ==
    IF I = {} THEN 0
    ELSE LET i == CHOOSE k \in I : TRUE
         IN  files[i].size + SizeOfRows(I \ {i})

\* C12: in every state reached by uploads, deletions and renames, ComputeStats
\* answers count = the number of file rows and totalSize = the sum of their
\* size fields, both numbers, and exactly {count: 0, totalSize: 0} when there
\* is no file row.
C12_StatsCountAndSum ==
    /\ StatsBody.count = Cardinality(FileIds)
    /\ StatsBody.totalSize \in Nat
    /\ StatsBody.totalSize = SizeOfRows(DOMAIN files)
    /\ (FileRows = {} => StatsBody = [count |-> 0, totalSize |-> 0])

\* a state right after ComputeStats has answered for two files of size 1
C12_Witness ==
    /\ last.op = "ComputeStats" /\ last.status = 200
    /\ Len(files) = 2 /\ StatsBody = [count |-> 2, totalSize |-> 2]

Resolves(id, type) == IF type = "file" THEN id \in FileIds ELSE id \in FolderIds

C15_RenameEmptyName ==
    [][Handled("Rename")
          => \A id \in Ids, type \in Types :
                Rename(id, type, "", FALSE)
                => /\ last'.status = 400
                   /\ UNCHANGED <<folders, files, blobs>>]_vars

\* a state right after a Rename answered 400 whose target file exists and
\* still has the name it was uploaded with
C15_Witness ==
    /\ last.op = "Rename" /\ last.status = 400
    /\ \E f \in FileRows : f.id = last.id /\ f.original_name \in UploadNames

\* C16: CreateFolder with an empty name and UploadFile without a content
\* stream (no file reached the handler) are both answered 400 (invalid
\* argument) and create no folder row, no file row and no blob.
C16_InvalidArgumentNoChange ==
    [][/\ Handled("CreateFolder")
             => \A parentId \in WireIds, id \in Ids, dbFail \in BOOLEAN :
                   CreateFolder("", parentId, id, dbFail)
                   => /\ last'.status = 400
                      /\ UNCHANGED <<folders, files, blobs>>
       /\ Handled("UploadFile")
             => /\ last'.status = 400
                /\ UNCHANGED <<folders, files, blobs>>]_vars

\* a state right after a CreateFolder with an empty name was answered 400:
\* there is still no folder
C16_Witness ==
    /\ last.op = "CreateFolder" /\ last.status = 400
    /\ folders = {} /\ steps > 0

\* C17: UploadFile followed by DownloadFile of the returned id returns the
\* uploaded content and the original original_name and mime_type: when the
\* row is inserted its blob holds the payload sent and the row holds the
\* original_name and mime_type sent, and no step that keeps the row as it is
\* (neither deletes nor renames the file) changes what its download carries.
C17_UploadDownloadRoundTrip ==
    [][/\ \A req \in BagToSet(inflight), fileId \in Ids :
             UploadHandler(req, fileId, FALSE) /\ last'.status = 200
             => LET f == files'[Len(files')]
                IN  /\ f.id = fileId
                    /\ f.name \in DOMAIN blobs'
                    /\ blobs'[f.name] = req.sent
                    /\ f.original_name = req.originalname
                    /\ f.mime_type = req.mimetype
       /\ \A f \in FileRows :
             (f \in Range(files') /\ existsSync(f.name))
             => /\ f.name \in DOMAIN blobs'
                /\ blobs'[f.name] = DownloadBody(f).content]_vars

\* C18: ListContents(v) returns exactly the folder rows whose parent_id is v
\* and exactly the file rows whose folder_id is v, each once, where "root"
\* stands for null and null matches only null; the folders come by name
\* ascending and the files by upload_date descending; so ListContents(root)
\* returns only rows whose parent reference is null.
C18_ListContentsExact ==
    \A v \in WireIds :
        LET ref == IF v = ROOT THEN NULL ELSE v
            fos == {f \in folders : f.parent_id = ref}
            fis == {files[i] : i \in {k \in DOMAIN files : files[k].folder_id = ref}}
        IN  /\ ListContentsBodies(v) # {}
            /\ \A body \in ListContentsBodies(v) :
                  /\ Range(body.folders) = fos /\ Len(body.folders) = Cardinality(fos)
                  /\ Range(body.files) = fis /\ Len(body.files) = Cardinality(fis)
                  /\ \A i \in 1..(Len(body.folders) - 1) :
                        NameRank(body.folders[i].name) <= NameRank(body.folders[i + 1].name)
                  /\ \A i \in 1..(Len(body.files) - 1) :
                        body.files[i].upload_date >= body.files[i + 1].upload_date
                  /\ (v = ROOT =>
                        /\ \A i \in 1..Len(body.folders) : body.folders[i].parent_id = NULL
                        /\ \A i \in 1..Len(body.files) : body.files[i].folder_id = NULL)

\* a state right after ListContents(root) has answered while one folder sits
\* at the root and another one below a folder
C18_Witness ==
    /\ last.op = "ListContents" /\ last.id = ROOT /\ last.status = 200
    /\ \E f, g \in folders : f.parent_id = NULL /\ g.parent_id # NULL

\* C19: in every reachable state no folder row has parent_id "root" and no
\* file row has folder_id "root": CreateFolder and UploadFile called with
\* the sentinel "root" store null.
C19_RootNeverStored ==
    /\ \A f \in folders : f.parent_id # ROOT
    /\ \A i \in DOMAIN files : files[i].folder_id # ROOT

\* a state in which a folder and a file were both created with the sentinel
\* (null is stored for "root" only)
C19_Witness ==
    /\ \E f \in folders : f.parent_id = NULL
    /\ \E i \in DOMAIN files : files[i].folder_id = NULL

\* C20: whenever DeleteFile(id) answers success, in the resulting state the
\* file row with that id is absent and the blob it referenced is absent, and
\* every other file row (in its order), every folder row and every other
\* blob is as before.
C20_DeleteFileSuccess ==
    [][Handled("DeleteFile") /\ last'.status = 200 =>
        \E f \in FileRows :
            /\ f.id = last'.id
            /\ \A i \in DOMAIN files' : files'[i].id # f.id
            /\ f.name \notin DOMAIN blobs'
            /\ files' = SelectSeq(files, LAMBDA g : g # f)
            /\ folders' = folders
            /\ DOMAIN blobs' = (DOMAIN blobs) \ {f.name}
            /\ \A k \in DOMAIN blobs' : blobs'[k] = blobs[k]]_vars

\* a state right after a successful DeleteFile that left another file row
\* and its blob in place
C20_Witness ==
    /\ last.op = "DeleteFile" /\ last.status = 200
    /\ last.id \notin FileIds
    /\ \E f \in FileRows : existsSync(f.name)

\* C21: DeleteFile(id) on an existing file row whose blob is already absent
\* succeeds (unless the DELETE statement itself fails): the absent blob is
\* not an error, the answer is 200 and the row is removed.
C21_DeleteFileBlobAbsent ==
    [][/\ Handled("DeleteFile") /\ last'.err # "db"
       /\ \E f \in FileRows : f.id = last'.id /\ ~existsSync(f.name)
       => /\ last'.status = 200
          /\ \A i \in DOMAIN files' : files'[i].id # last'.id
          /\ Len(files') = Len(files) - 1
          /\ blobs' = blobs]_vars

\* a state right after DeleteFile answered 200 for a row whose blob was
\* absent when the request arrived
C21_Witness ==
    /\ last.op = "DeleteFile" /\ last.status = 200 /\ ~last.blob
    /\ last.id \notin FileIds

\* the ids of the file rows / folder rows that a step keeps but changes
ChangedFiles ==
    {f.id : f \in {r \in FileRows : \E g \in Range(files') : g.id = r.id /\ g # r}}

ChangedFolders ==
    {f.id : f \in {r \in folders : \E g \in folders' : g.id = r.id /\ g # r}}

\* C22: as long as a file row exists its id, name (storage key), mime_type,
\* size, folder_id and upload_date never change, and as long as a folder row
\* exists its id, parent_id and created_at never change; the one mutation is
\* a successful Rename, which changes original_name of one file row or name
\* of one folder row, creates and deletes no row and leaves the blobs alone.
C22_ImmutableFields ==
    [][/\ \A f \in FileRows, g \in Range(files') :
             f.id = g.id
             => /\ g.name = f.name /\ g.mime_type = f.mime_type /\ g.size = f.size
                /\ g.folder_id = f.folder_id /\ g.upload_date = f.upload_date
       /\ \A f \in folders, g \in folders' :
             f.id = g.id => g.parent_id = f.parent_id /\ g.created_at = f.created_at
       /\ (ChangedFiles \cup ChangedFolders # {}
             => Handled("Rename") /\ last'.status = 200)
       /\ (Handled("Rename")
             => /\ blobs' = blobs
                /\ {g.id : g \in Range(files')} = FileIds /\ Len(files') = Len(files)
                /\ {g.id : g \in folders'} = FolderIds
                /\ \/ ChangedFiles = {} /\ Cardinality(ChangedFolders) <= 1
                   \/ ChangedFolders = {} /\ Cardinality(ChangedFiles) <= 1)]_vars

\* a state right after a Rename gave a file row the new name: the row still
\* has its blob under its storage key
C22_Witness ==
    /\ last.op = "Rename" /\ last.status = 200
    /\ \E f \in FileRows :
          f.id = last.id /\ f.original_name \in NewNames /\ existsSync(f.name)

\* the operations that only read
ReadOps == {"ListContents", "ListFiles", "ComputeStats", "DownloadFile", "ViewFile"}

\* C23: ListContents, ListFiles, ComputeStats, DownloadFile and ViewFile are
\* read-only: whatever they answer, success or failure, every folder row,
\* every file row and every blob is as before.
C23_ReadsChangeNothing ==
    [][(\E op \in ReadOps : Handled(op))
       => folders' = folders /\ files' = files /\ blobs' = blobs]_vars

\* a state right after a download failed on a row without blob: the row is
\* still there
C23_Witness ==
    /\ last.op = "DownloadFile" /\ last.err = "ENOENT"
    /\ \E f \in FileRows : f.id = last.id /\ ~existsSync(f.name)

\* C24: an UploadFile into folder F (blob write, then insert) interleaved with
\* a DeleteFolder(F): both complete without error and afterwards metadata and
\* blobs are paired. Stated at the step that completes the pair, the insert of
\* an upload into F whose last answered request was a successful
\* DeleteFolder(F), with no other upload in flight and everything else paired
\* before it: the insert answers 200, and then every file row has its blob
\* and every blob is referenced by a file row.
C24_UploadDeleteFolderPaired ==
    [][\A req \in BagToSet(inflight), fileId \in Ids :
          /\ UploadHandler(req, fileId, FALSE)
          /\ last.op = "DeleteFolder" /\ last.status = 200 /\ last.id = req.folderId
          /\ inflight' = EmptyBag
          /\ EveryFileHasBlob
          /\ \A k \in DOMAIN blobs : k = req.filename \/ \E f \in FileRows : f.name = k
          => /\ last'.status = 200
             /\ \A i \in DOMAIN files' : files'[i].name \in DOMAIN blobs'
             /\ \A k \in DOMAIN blobs' : \E i \in DOMAIN files' : files'[i].name = k]_vars

C27_ListingOfCurrentFolder ==
    (fetches = EmptyBag /\ uploads = EmptyBag) => uiFrom = currentFolderId
====
